---- MODULE Spec2Model ----
(***************************************************************************)
(* Model of main.py: the run loop (main), one cycle (execute), the         *)
(* authenticator (login), the cookie loader (load_cookies) and the         *)
(* purchase flow (purchase_steps).  The program is sequential: pc is the   *)
(* position in the code, and every bounded wait of the code is a step      *)
(* whose outcome (element shown, or TimeoutException) is drawn from the    *)
(* outcomes the page can produce.                                          *)
(***************************************************************************)
EXTENDS Integers, Sequences, FiniteSets

\* ---------------------------------------------------------------- bounds
MaxOffers == 2      \* longest offer list a query returns
MaxEditions == 2    \* most edition/add-on titles of one offer
MaxCycles == 2      \* cycles of the run loop that are explored
MaxCookies == 1     \* most records in cookies.json

VARIABLES
    credentials,            \* EMAIL != "" and PASSWORD != ""; FALSE while
                            \* neither is assigned                  (main.py:29-30)
    SLEEPTIME,              \* repeat interval in seconds, written <<hi, lo>>;
                            \* << >> while not assigned             (main.py:32)
    TOTP,                   \* the secret of the pyotp.TOTP object; "" while
                            \* TOTP is not assigned or is None      (main.py:33-34)
    pc,                     \* position in the code
    cycle,                  \* number of execute() calls started
    openBrowsers,           \* browser sessions opened and not closed
    n_games,                \* len(games_found) that fixed range()  (main.py:275)
    i,                      \* index of the offer loop              (main.py:275)
    games_found,            \* length of the list last queried      (main.py:252,277)
    purchase_button,        \* purchase_button.text                 (main.py:307)
    addons_titles,          \* len(addons_titles)                   (main.py:358)
    t,                      \* index of the sub-item loop           (main.py:360)
    ps,                     \* outcome of each step of this offer's purchase_steps
    caller,                 \* who called purchase_steps: "offer" / "edition"
    exc,                    \* last exception that left its try block: <<type, site>>
    log                     \* what this cycle did and read, in order: <<event, i, t>>

vars == << credentials, SLEEPTIME, TOTP, pc, cycle, openBrowsers, n_games, i,
           games_found, purchase_button, addons_titles, t, ps, caller, exc, log >>

cfgVars == << credentials, SLEEPTIME, TOTP >>
offerVars == << n_games, i, games_found, purchase_button, addons_titles, t >>
psVars == << ps, caller >>

\* ------------------------------------------------------------ exceptions
\* Classes an exception is an instance of (Python / selenium hierarchy).
Bases(e) ==
    CASE e = "TimeoutException"       -> {"TimeoutException", "WebDriverException"}
      [] e = "NoSuchElementException" -> {"NoSuchElementException", "WebDriverException"}
      [] e = "WebDriverException"     -> {"WebDriverException"}
      [] e = "IndexError"             -> {"IndexError", "LookupError"}
      [] e = "KeyError"               -> {"KeyError", "LookupError"}
      [] e = "TypeError"              -> {"TypeError"}
      [] e = "FileNotFoundError"      -> {"FileNotFoundError", "OSError"}
      [] e = "PermissionError"        -> {"PermissionError", "OSError"}
      [] e = "JSONDecodeError"        -> {"JSONDecodeError", "ValueError"}
      [] e = "UnicodeDecodeError"     -> {"UnicodeDecodeError", "UnicodeError", "ValueError"}
      [] e = "RecursionError"         -> {"RecursionError", "RuntimeError"}
      [] e = "IsADirectoryError"      -> {"IsADirectoryError", "OSError"}
      [] e = "OSError"                -> {"OSError"}
      [] e = "MemoryError"            -> {"MemoryError"}
      [] e = "ValueError"             -> {"ValueError"}
      [] e = "OverflowError"          -> {"OverflowError", "ArithmeticError"}
      [] OTHER                        -> {e}

\* except (classes): does the clause catch e?
Catches(classes, e) == Bases(e) \cap classes # {}

\* main.py:109   except TimeoutException            (license agreement)
AgreementExcept == {"TimeoutException"}
\* main.py:132   except (NoSuchElementException, TimeoutException, LookupError)
RefundExceptNoLookup == {"NoSuchElementException", "TimeoutException"}
RefundExcept == {"NoSuchElementException", "TimeoutException", "LookupError"}
\* main.py:187   except TimeoutException            (login form)
LoginFormExcept == {"TimeoutException"}
\* main.py:272   except NoSuchElementException      (cookie banner)
BannerExcept == {"NoSuchElementException"}
\* main.py:303   except TimeoutException            (mature content)
MatureExcept == {"TimeoutException"}
\* main.py:396   except (TimeoutException, NoSuchElementException, WebDriverException)
CycleExceptNoTimeout == {"NoSuchElementException"}
CycleExcept == {"TimeoutException", "NoSuchElementException", "WebDriverException"}

\* Labels the purchase button can show; "PRE-ORDER" stands for any other text.
Labels == {"OWNED", "GET", "SEE EDITIONS", "PRE-ORDER"}

NoExc == << "none", "none" >>
NoPs == [s1 |-> "-", s2 |-> "-", s3 |-> "-", s4 |-> "-", result |-> "-"]

Ev(name) == << name, -1, -1 >>
EvI(name) == << name, i, -1 >>
EvT(name) == << name, i, t >>

\* Where an exception raised inside the try of execute() (main.py:248-397) goes:
\* to the except clause of line 396 if it catches it, out of the process if not.
RaiseInCycle(e, site) ==
    /\ exc' = << e, site >>
    /\ pc' = IF Catches(CycleExcept, e) THEN "handler" ELSE "crashed"

\* Where an exception raised in login() goes: login is called at main.py:246,
\* before the try of line 248, and main() has no handler.
RaiseInLogin(e, site) ==
    /\ exc' = << e, site >>
    /\ pc' = "crashed"

\* -------------------------------------------------------------- integers
\* An integer n of the program is written << hi, lo >>, with
\* n = hi * 10^9 + lo, |lo| < 10^9 and hi, lo of one sign: the values of
\* SLEEPTIME that time.sleep refuses are larger than 2^31.
Negative(n) == n # << >> /\ (n[1] < 0 \/ n[2] < 0)
NonNegative(n) == n # << >> /\ ~Negative(n)
Greater(n, m) == n[1] > m[1] \/ (n[1] = m[1] /\ n[2] > m[2])

\* n + m, for n, m >= 0.
Plus(n, m) ==
    IF n[2] + m[2] >= 1000000000
    THEN << n[1] + m[1] + 1, n[2] + m[2] - 1000000000 >>
    ELSE << n[1] + m[1], n[2] + m[2] >>

\* time.sleep (main.py:417) counts time in a signed 64-bit number of
\* nanoseconds, at most 2^63 - 1 ns = 9223372036 s and 854775807 ns.
PyTimeMax == [s |-> << 9, 223372036 >>, ns |-> 854775807]

\* Readings of the monotonic clock at the call of time.sleep: whole seconds
\* and nanoseconds since the machine started.
Clocks ==
    { [s |-> << 0, 1 >>, ns |-> 0],
      [s |-> << 0, 16467 >>, ns |-> 55317921] }

\* What time.sleep(n) raises, for an integer n >= 0, when the clock reads
\* now: OverflowError when n seconds are more nanoseconds than 64 bits hold,
\* OSError (EINVAL) when the time to wake up at, now + n, is.
SleepRaises(n, now) ==
    IF Greater(n, PyTimeMax.s)
    THEN "OverflowError"
    ELSE IF \/ Greater(Plus(n, now.s), PyTimeMax.s)
            \/ (Plus(n, now.s) = PyTimeMax.s /\ now.ns > PyTimeMax.ns)
         THEN "OSError"
         ELSE "ok"

\* ----------------------------------------------------------- environment
\* The environment variables read_env_variables reads, "" for one that is
\* not set (os.getenv(..) or default treats both alike).
EnvsOf(sleeptimes, totps) ==
    [ TIMEOUT : {"", "x"},
      EMAIL : {"", "e"},
      PASSWORD : {"", "p"},
      LOGLEVEL : {"", "debug", "logger", "basic_format", "_styles"},
      SLEEPTIME : sleeptimes,
      TOTP : totps ]

\* The run loop reads no TOTP and login() no SLEEPTIME: the values of
\* SLEEPTIME that time.sleep refuses are taken without TOTP, and the secret
\* that is not base32 text without SLEEPTIME.
Envs ==
    EnvsOf({"", "0", "1.5", "abc"}, {"", "JBSWY3DPEHPK3PXP"})
       \cup EnvsOf({"9223372036", "9223372037"}, {""})
       \cup EnvsOf({""}, {"secret"})

\* int(s) of main.py:27,32: the integer a string is the numeral of (blanks
\* around it allowed); << >> for a string that is no numeral of an integer,
\* on which int raises ValueError.
IntOf(s) ==
    CASE s = "0"          -> << 0, 0 >>
      [] s = "-1"         -> << 0, -1 >>
      [] s = " 3 "        -> << 0, 3 >>
      [] s = "20"         -> << 0, 20 >>
      [] s = "9223372036" -> << 9, 223372036 >>
      [] s = "9223372037" -> << 9, 223372037 >>
      [] OTHER            -> << >>
IntRaises(s) == IF IntOf(s) = << >> THEN "ValueError" ELSE "ok"

\* main.py:26-27   int(os.getenv('TIMEOUT') or 20)
TimeoutRaises(env) == IF env.TIMEOUT = "" THEN "ok" ELSE IntRaises(env.TIMEOUT)
\* main.py:32      int(os.getenv('SLEEPTIME') or -1)
SleeptimeRaises(env) == IF env.SLEEPTIME = "" THEN "ok" ELSE IntRaises(env.SLEEPTIME)
SleeptimeOf(env) == IF env.SLEEPTIME = "" THEN << 0, -1 >> ELSE IntOf(env.SLEEPTIME)
\* main.py:29-30 and the test of main.py:407
CredentialsOf(env) == env.EMAIL # "" /\ env.PASSWORD # ""

\* main.py:31   str.upper(os.getenv('LOGLEVEL') or '')
Upper(s) ==
    CASE s = "debug"        -> "DEBUG"
      [] s = "basic_format" -> "BASIC_FORMAT"
      [] s = "logger"       -> "LOGGER"
      [] s = "_styles"      -> "_STYLES"
      [] OTHER              -> s

\* main.py:406   logger.setLevel(getattr(logging, LOGLEVEL, "INFO")): a name
\* that is no attribute of logging ("", "LOGGER") gives "INFO", the name of a
\* level ("DEBUG") gives the level.  The other attributes of logging with an
\* upper-case name are BASIC_FORMAT, a string that names no level
\* (ValueError), and _STYLES, a dict (TypeError).
SetLevelRaises(name) ==
    CASE name = "BASIC_FORMAT" -> "ValueError"
      [] name = "_STYLES"      -> "TypeError"
      [] OTHER                 -> "ok"

TypeOK ==
    /\ credentials \in BOOLEAN
    /\ SLEEPTIME \in {<< >>, << 0, -1 >>, << 0, 0 >>, << 9, 223372036 >>,
                      << 9, 223372037 >>}
    /\ TOTP \in {"", "JBSWY3DPEHPK3PXP", "secret"}
    /\ cycle \in 0..(MaxCycles + 1)
    /\ openBrowsers \in 0..(MaxCycles + 1)
    /\ n_games \in 0..MaxOffers
    /\ i \in 0..MaxOffers
    /\ games_found \in 0..MaxOffers
    /\ purchase_button \in Labels \cup {"-"}
    /\ addons_titles \in 0..MaxEditions
    /\ t \in 0..MaxEditions
    /\ caller \in {"-", "offer", "edition"}

Init ==
    /\ credentials = FALSE
    /\ SLEEPTIME = << >>
    /\ TOTP = ""
    /\ pc = "main"
    /\ cycle = 0
    /\ openBrowsers = 0
    /\ n_games = 0
    /\ i = 0
    /\ games_found = 0
    /\ purchase_button = "-"
    /\ addons_titles = 0
    /\ t = 0
    /\ ps = NoPs
    /\ caller = "-"
    /\ exc = NoExc
    /\ log = << >>

\* ------------------------------------------------------------------ main
\* Where an exception raised in main() or in read_env_variables goes: out of
\* the process (main.py:401-418 has no try block).
RaiseInMain(e, site) ==
    /\ exc' = << e, site >>
    /\ pc' = "crashed"

\* main.py:401-414, with read_env_variables (main.py:20-34, called at 404):
\* the environment is read (int() of TIMEOUT at 27 and of SLEEPTIME at 32 may
\* raise, after the assignments before them), the log level is set (406),
\* and without credentials main returns, else the first execute() starts.
Main ==
    /\ pc = "main"
    /\ \E env \in Envs :
          IF TimeoutRaises(env) # "ok"
          THEN /\ RaiseInMain(TimeoutRaises(env), "TIMEOUT")
               /\ UNCHANGED cfgVars
          ELSE IF SleeptimeRaises(env) # "ok"
          THEN /\ RaiseInMain(SleeptimeRaises(env), "SLEEPTIME")
               /\ credentials' = CredentialsOf(env)
               /\ UNCHANGED << SLEEPTIME, TOTP >>
          ELSE /\ credentials' = CredentialsOf(env)
               /\ SLEEPTIME' = SleeptimeOf(env)
               /\ TOTP' = env.TOTP
               /\ IF SetLevelRaises(Upper(env.LOGLEVEL)) # "ok"
                  THEN RaiseInMain(SetLevelRaises(Upper(env.LOGLEVEL)), "setLevel")
                  ELSE /\ pc' = IF CredentialsOf(env) THEN "execute" ELSE "returned"
                       /\ exc' = exc
    /\ UNCHANGED << cycle, openBrowsers, offerVars, psVars, log >>

\* main.py:415-418: while SLEEPTIME >= 0: sleep, execute(); else main returns.
\* time.sleep raises on a SLEEPTIME it cannot wait for.
MainLoop ==
    /\ pc = "main_loop"
    /\ \E now \in Clocks :
          IF Negative(SLEEPTIME)
          THEN /\ pc' = "returned"
               /\ exc' = exc
          ELSE IF SleepRaises(SLEEPTIME, now) # "ok"
               THEN RaiseInMain(SleepRaises(SLEEPTIME, now), "sleep")
               ELSE /\ cycle < MaxCycles
                    /\ pc' = "execute"
                    /\ exc' = exc
    /\ UNCHANGED << cfgVars, cycle, openBrowsers, offerVars, psVars, log >>

\* main.py:236-237: execute() opens a browser session and loads the page.
OpenBrowser ==
    /\ pc = "execute"
    /\ cycle' = cycle + 1
    /\ openBrowsers' = openBrowsers + 1
    /\ n_games' = 0
    /\ i' = 0
    /\ games_found' = 0
    /\ purchase_button' = "-"
    /\ addons_titles' = 0
    /\ t' = 0
    /\ ps' = NoPs
    /\ caller' = "-"
    /\ exc' = NoExc
    /\ log' = << Ev("open_browser") >>
    /\ pc' = "load_cookies"
    /\ UNCHANGED cfgVars

\* ---------------------------------------------------------- load_cookies
\* What open('cookies.json') and json.load can give: no file, a file that
\* may not be read, a directory, a file that cannot be opened or read for
\* another reason (a symlink loop, a socket, an I/O error), a file too large
\* for the memory, bytes that are not UTF-8 text, text that is not JSON, JSON nested deeper than the parser's recursion limit, JSON with
\* an integer of more digits than int() converts, a JSON value that is not
\* iterable (a number, true, null), or a list of entries; on a FIFO that no
\* process opens for writing, open() does not return.  An entry is
\* "ok", lacks a key (KeyError), is refused by the browser
\* (WebDriverException), or is no object at all (i['name'] raises TypeError).
CookieKinds == {"ok", "KeyError", "WebDriverException", "TypeError"}
CookieLists == UNION { [1..k -> CookieKinds] : k \in 0..MaxCookies }
FileStates ==
    {"missing", "unreadable", "directory", "io_error", "too_large", "not_utf8",
     "malformed", "too_deep", "huge_int", "not_iterable"}
CookieFiles ==
    { [state |-> s, records |-> << >>] : s \in FileStates \cup {"fifo_no_writer"} }
    \cup { [state |-> "json", records |-> r] : r \in CookieLists }

\* main.py:50   except (WebDriverException, KeyError): pass
CookieExcept == {"WebDriverException", "KeyError"}
\* main.py:54   except FileNotFoundError
CookiesNotFoundExcept == {"FileNotFoundError"}
\* main.py:54,56   except FileNotFoundError / except JSONDecodeError
CookiesFileExcept == CookiesNotFoundExcept \cup {"JSONDecodeError"}

\* main.py:40: does open() wait for ever?
FileBlocks(file) == file.state = "fifo_no_writer"

\* main.py:40-41: what open, json.load and the start of the for loop raise.
FileRaises(file) ==
    CASE file.state = "missing"      -> "FileNotFoundError"
      [] file.state = "unreadable"   -> "PermissionError"
      [] file.state = "directory"    -> "IsADirectoryError"
      [] file.state = "io_error"     -> "OSError"
      [] file.state = "too_large"    -> "MemoryError"
      [] file.state = "not_utf8"     -> "UnicodeDecodeError"
      [] file.state = "malformed"    -> "JSONDecodeError"
      [] file.state = "too_deep"     -> "RecursionError"
      [] file.state = "huge_int"     -> "ValueError"
      [] file.state = "not_iterable" -> "TypeError"
      [] OTHER                       -> "ok"

\* main.py:41-51: the exception that leaves the loop over the entries: that
\* of the first entry whose exception the except clause of line 50 misses.
RECURSIVE RecordsRaise(_)
RecordsRaise(records) ==
    IF records = << >> THEN "ok"
    ELSE IF Head(records) = "ok" \/ Catches(CookieExcept, Head(records))
         THEN RecordsRaise(Tail(records))
         ELSE Head(records)

\* main.py:41-51: the events of the loop over the entries.  An entry that
\* raises is skipped when the except clause of line 50 catches its exception,
\* and ends the loop when not.
RECURSIVE AddCookies(_)
AddCookies(records) ==
    IF records = << >> THEN << >>
    ELSE IF Head(records) = "ok"
         THEN << Ev("add_cookie") >> \o AddCookies(Tail(records))
         ELSE IF Catches(CookieExcept, Head(records))
              THEN AddCookies(Tail(records))
              ELSE << >>

\* Where an exception raised in execute() before its try block goes
\* (main.py:236-246): out of execute() and main().
RaiseBeforeTry(e, site) ==
    /\ exc' = << e, site >>
    /\ pc' = "crashed"

\* main.py:37-57, called at main.py:238.
LoadCookies ==
    /\ pc = "load_cookies"
    /\ \E file \in CookieFiles :
          IF FileBlocks(file)
          THEN /\ pc' = "blocked"
               /\ log' = log
               /\ exc' = exc
          ELSE IF FileRaises(file) = "ok"
          THEN IF RecordsRaise(file.records) = "ok"
               THEN /\ log' = log \o AddCookies(file.records) \o << Ev("refresh") >>
                    /\ pc' = "logged_in"
                    /\ exc' = exc
               ELSE /\ log' = log \o AddCookies(file.records)
                    /\ RaiseBeforeTry(RecordsRaise(file.records), "add_cookie")
          ELSE IF Catches(CookiesFileExcept, FileRaises(file))
               THEN /\ log' = Append(log,
                              Ev(IF Catches(CookiesNotFoundExcept, FileRaises(file))
                                 THEN "critical_cookies_not_found"
                                 ELSE "critical_cookies_malformed"))
                    /\ pc' = "logged_in"
                    /\ exc' = exc
               ELSE /\ log' = log
                    /\ RaiseBeforeTry(FileRaises(file), "cookies.json")
    /\ UNCHANGED << cfgVars, cycle, openBrowsers, offerVars, psVars >>

\* LoggedIn with the call of login() moved out of the except clause.
LoggedInAlwaysLogin ==
    /\ pc = "logged_in"
    /\ \E found \in BOOLEAN :
          /\ pc' = "login_form"
          /\ log' = IF found THEN log \o << Ev("logged_in"), Ev("login") >>
                              ELSE Append(log, Ev("login"))
    /\ UNCHANGED << cfgVars, cycle, openBrowsers, offerVars, psVars, exc >>

\* main.py:241-246: the log-out control is found (already logged in), or
\* find_element raises NoSuchElementException and login() is called.
LoggedIn ==
    /\ pc = "logged_in"
    /\ \E found \in BOOLEAN :
          IF found
          THEN /\ pc' = "get_games"
               /\ log' = Append(log, Ev("logged_in"))
          ELSE /\ pc' = "login_form"
               /\ log' = Append(log, Ev("login"))
    /\ UNCHANGED << cfgVars, cycle, openBrowsers, offerVars, psVars, exc >>

\* ----------------------------------------------------------------- login
\* Outcomes of the try block of main.py:148-185: every control is found and
\* sign-in is clicked, or one of the four waits times out, or the password
\* field is not found by find_element_by_xpath (main.py:176).
LoginFormOutcomes ==
    { << "ok", "sign-in" >>,
      << "TimeoutException", "user" >>,
      << "TimeoutException", "login-with-epic" >>,
      << "TimeoutException", "email" >>,
      << "NoSuchElementException", "password" >>,
      << "TimeoutException", "sign-in" >> }

\* main.py:148-188.  An exception the except clause of line 187 catches is
\* logged as critical and login() goes on with the captcha check.
LoginForm ==
    /\ pc = "login_form"
    /\ \E o \in LoginFormOutcomes :
          IF o[1] = "ok"
          THEN /\ log' = Append(log, Ev("click_sign_in"))
               /\ pc' = "captcha"
               /\ exc' = exc
          ELSE IF Catches(LoginFormExcept, o[1])
               THEN /\ log' = Append(log, Ev("critical_no_login_form"))
                    /\ pc' = "captcha"
                    /\ exc' = exc
               ELSE /\ log' = log
                    /\ RaiseInLogin(o[1], o[2])
    /\ UNCHANGED << cfgVars, cycle, openBrowsers, offerVars, psVars >>

\* Captcha with exit(0) left out: the browser is closed and login() goes on.
CaptchaNoExit ==
    /\ pc = "captcha"
    /\ \E present \in BOOLEAN :
          IF present
          THEN /\ log' = log \o << Ev("critical_captcha"), Ev("close_browser") >>
               /\ openBrowsers' = openBrowsers - 1
               /\ pc' = IF TOTP # "" THEN "totp" ELSE "invalid"
          ELSE /\ log' = Append(log, Ev("no_captcha"))
               /\ openBrowsers' = openBrowsers
               /\ pc' = IF TOTP # "" THEN "totp" ELSE "invalid"
    /\ UNCHANGED << cfgVars, cycle, offerVars, psVars, exc >>

\* main.py:190-203: the captcha iframe is present (critical, browser.close(),
\* exit(0)), or the wait times out and login() goes on.
Captcha ==
    /\ pc = "captcha"
    /\ \E present \in BOOLEAN :
          IF present
          THEN /\ log' = log \o << Ev("critical_captcha"), Ev("close_browser") >>
               /\ openBrowsers' = openBrowsers - 1
               /\ pc' = "exited"
          ELSE /\ log' = Append(log, Ev("no_captcha"))
               /\ openBrowsers' = openBrowsers
               /\ pc' = IF TOTP # "" THEN "totp" ELSE "invalid"
    /\ UNCHANGED << cfgVars, cycle, offerVars, psVars, exc >>

\* main.py:210   TOTP.now() decodes the secret as base32 text, padded with
\* '=' to a multiple of 8 characters: "secret" becomes "secret==", which
\* b32decode refuses with binascii.Error, a ValueError.
NowRaises(secret) ==
    CASE secret = "JBSWY3DPEHPK3PXP" -> "ok"
      [] secret = "secret"           -> "ValueError"

\* main.py:205-212: only when TOTP is set.  The wait for the code field,
\* TOTP.now() and find_element_by_id('continue') are in no try block.
TotpOutcomes ==
    { << "TimeoutException", "code" >> }
       \cup IF NowRaises(TOTP) # "ok"
            THEN { << NowRaises(TOTP), "TOTP.now" >> }
            ELSE { << "ok", "continue" >>,
                   << "NoSuchElementException", "continue" >> }

Totp ==
    /\ pc = "totp"
    /\ \E o \in TotpOutcomes :
          IF o[1] = "ok"
          THEN /\ log' = log \o << Ev("locate_2fa"), Ev("submit_2fa") >>
               /\ pc' = "invalid"
               /\ exc' = exc
          ELSE /\ log' = Append(log, Ev("locate_2fa"))
               /\ RaiseInLogin(o[1], o[2])
    /\ UNCHANGED << cfgVars, cycle, openBrowsers, offerVars, psVars >>

\* main.py:214-232: the invalid-credentials message is shown (critical,
\* browser.close(), exit(0)), or the wait times out: 'login succeeded'.
Invalid ==
    /\ pc = "invalid"
    /\ \E shown \in BOOLEAN :
          IF shown
          THEN /\ log' = log \o << Ev("check_invalid"), Ev("critical_invalid"),
                                   Ev("close_browser") >>
               /\ openBrowsers' = openBrowsers - 1
               /\ pc' = "exited"
          ELSE /\ log' = log \o << Ev("check_invalid"), Ev("login_succeeded") >>
               /\ openBrowsers' = openBrowsers
               /\ pc' = "get_games"
    /\ UNCHANGED << cfgVars, cycle, offerVars, psVars, exc >>

\* --------------------------------------------------------------- execute
\* main.py:249-260: the first query of the offers.  A timeout is logged as
\* critical and execute() returns from inside the try block, so line 398
\* (browser.close()) is not run.  visibility_of_all_elements_located gives a
\* list only when it is not empty.
GetGames ==
    /\ pc = "get_games"
    /\ \E n \in 0..MaxOffers :
          IF n = 0
          THEN /\ log' = log \o << Ev("enumerate"), Ev("critical_no_free_games") >>
               /\ pc' = "main_loop"
               /\ games_found' = games_found
          ELSE /\ log' = Append(log, Ev("enumerate"))
               /\ pc' = "banner"
               /\ games_found' = n
    /\ UNCHANGED << cfgVars, cycle, openBrowsers, n_games, i, purchase_button,
                    addons_titles, t, psVars, exc >>

\* main.py:262-275: the cookie banner.  WebDriverWait.until raises
\* TimeoutException when the close button does not become clickable; the
\* except clause of line 272 names NoSuchElementException.  Then range() of
\* line 275 fixes the number of iterations.
Banner ==
    /\ pc = "banner"
    /\ \E o \in {"ok", "TimeoutException"} :
          IF o = "ok" \/ Catches(BannerExcept, o)
          THEN /\ log' = Append(log, Ev(IF o = "ok" THEN "close_banner"
                                                     ELSE "no_banner"))
               /\ n_games' = games_found
               /\ i' = 0
               /\ pc' = "for_offer"
               /\ exc' = exc
          ELSE /\ RaiseInCycle(o, "banner")
               /\ UNCHANGED << log, n_games, i >>
    /\ UNCHANGED << cfgVars, cycle, openBrowsers, games_found, purchase_button,
                    addons_titles, t, psVars >>

\* main.py:275-284: the head of the offer loop, the second query of the
\* offers and the click on games_found[i].  The list queried here can be
\* shorter than the one that fixed range(): games_found[i] then raises
\* IndexError.  After the last iteration 'all games processed' is logged.
ForOffer ==
    /\ pc = "for_offer"
    /\ IF i < n_games
       THEN \E n \in 0..MaxOffers :
              IF n = 0
              THEN /\ RaiseInCycle("TimeoutException", "offers")
                   /\ UNCHANGED << log, games_found >>
              ELSE /\ games_found' = n
                   /\ IF i < n
                      THEN /\ log' = Append(log, EvI("click_offer"))
                           /\ pc' = "mature"
                           /\ exc' = exc
                      ELSE /\ log' = log
                           /\ RaiseInCycle("IndexError", "offers")
       ELSE /\ log' = Append(log, Ev("all_games_processed"))
            /\ pc' = "close"
            /\ UNCHANGED << games_found, exc >>
    /\ UNCHANGED << cfgVars, cycle, openBrowsers, n_games, i, purchase_button,
                    addons_titles, t, psVars >>

\* main.py:286-304: the mature-content block is absent, or shown and
\* bypassed, or shown with no Continue button; a timeout of either wait is
\* caught at line 303.
Mature ==
    /\ pc = "mature"
    /\ \E o \in {"absent", "bypassed", "no_continue"} :
          IF o = "bypassed" \/ Catches(MatureExcept, "TimeoutException")
          THEN /\ pc' = "read_offer"
               /\ exc' = exc
          ELSE RaiseInCycle("TimeoutException", "mature")
    /\ UNCHANGED << cfgVars, cycle, openBrowsers, offerVars, psVars, log >>

\* Outcomes of main.py:306-328: the purchase button is not shown in time, or
\* the title, the price or the expiry is not found, or all are read and the
\* button shows one of the labels.
ReadOfferFailures ==
    { << "TimeoutException", "purchase-cta-button" >>,
      << "NoSuchElementException", "name" >>,
      << "NoSuchElementException", "price" >>,
      << "NoSuchElementException", "expires" >> }

ReadOffer ==
    /\ pc = "read_offer"
    /\ \/ \E label \in Labels :
             /\ purchase_button' = label
             /\ log' = Append(log, EvI(label))
             /\ pc' = "branch"
             /\ exc' = exc
       \/ \E o \in ReadOfferFailures :
             /\ RaiseInCycle(o[1], o[2])
             /\ UNCHANGED << purchase_button, log >>
    /\ UNCHANGED << cfgVars, cycle, openBrowsers, n_games, i, games_found,
                    addons_titles, t, psVars >>

\* Owned with the elif chain broken after it: the else branch runs as well.
OwnedThenElse ==
    /\ pc = "branch"
    /\ purchase_button = "OWNED"
    /\ log' = log \o << EvI("skip"), EvI("warn") >>
    /\ pc' = "nav_back"
    /\ UNCHANGED << cfgVars, cycle, openBrowsers, offerVars, psVars, exc >>

\* main.py:330-334: OWNED is logged and skipped.
Owned ==
    /\ pc = "branch"
    /\ purchase_button = "OWNED"
    /\ log' = Append(log, EvI("skip"))
    /\ pc' = "nav_back"
    /\ UNCHANGED << cfgVars, cycle, openBrowsers, offerVars, psVars, exc >>

\* Get with the test of the label widened to OWNED.
GetAlsoOwned ==
    /\ pc = "branch"
    /\ purchase_button \in {"GET", "OWNED"}
    /\ log' = log \o << EvI("purchase_click"), EvI("purchase_steps") >>
    /\ ps' = NoPs
    /\ caller' = "offer"
    /\ pc' = "ps1"
    /\ UNCHANGED << cfgVars, cycle, openBrowsers, offerVars, exc >>

\* Get with the click on the purchase button done twice.
GetClicksTwice ==
    /\ pc = "branch"
    /\ purchase_button = "GET"
    /\ log' = log \o << EvI("purchase_click"), EvI("purchase_click"),
                         EvI("purchase_steps") >>
    /\ ps' = NoPs
    /\ caller' = "offer"
    /\ pc' = "ps1"
    /\ UNCHANGED << cfgVars, cycle, openBrowsers, offerVars, exc >>

\* main.py:336-340: GET clicks the purchase button and calls purchase_steps.
Get ==
    /\ pc = "branch"
    /\ purchase_button = "GET"
    /\ log' = log \o << EvI("purchase_click"), EvI("purchase_steps") >>
    /\ ps' = NoPs
    /\ caller' = "offer"
    /\ pc' = "ps1"
    /\ UNCHANGED << cfgVars, cycle, openBrowsers, offerVars, exc >>

\* main.py:347-360: SEE EDITIONS waits for the titles of the editions and
\* add-ons (a list that is not empty) and starts the sub-item loop.
SeeEditions ==
    /\ pc = "branch"
    /\ purchase_button = "SEE EDITIONS"
    /\ \E m \in 0..MaxEditions :
          IF m = 0
          THEN /\ RaiseInCycle("TimeoutException", "titles")
               /\ UNCHANGED << log, addons_titles, t >>
          ELSE /\ addons_titles' = m
               /\ t' = 0
               /\ log' = Append(log, EvI("editions"))
               /\ pc' = "for_edition"
               /\ exc' = exc
    /\ UNCHANGED << cfgVars, cycle, openBrowsers, n_games, i, games_found,
                    purchase_button, psVars >>

\* Unrecognized with the else branch acting on the button.
UnrecognizedClicks ==
    /\ pc = "branch"
    /\ purchase_button \notin {"OWNED", "GET", "SEE EDITIONS"}
    /\ log' = log \o << EvI("warn"), EvI("purchase_click"), EvI("purchase_steps") >>
    /\ ps' = NoPs
    /\ caller' = "offer"
    /\ pc' = "ps1"
    /\ UNCHANGED << cfgVars, cycle, openBrowsers, offerVars, exc >>

\* main.py:387-391: any other label is logged as a warning.
Unrecognized ==
    /\ pc = "branch"
    /\ purchase_button \notin {"OWNED", "GET", "SEE EDITIONS"}
    /\ log' = Append(log, EvI("warn"))
    /\ pc' = "nav_back"
    /\ UNCHANGED << cfgVars, cycle, openBrowsers, offerVars, psVars, exc >>

\* main.py:361: editions_addons_buttons is bound to the WebDriverWait object;
\* the list that until() returns at line 363 is dropped.
editions_addons_buttons == "WebDriverWait"

\* obj[t]: a list has __getitem__, a WebDriverWait has not (TypeError).
Subscriptable(obj) == obj = "list"

\* main.py:360-386: one iteration of the sub-item loop: wait for the buttons,
\* then read editions_addons_buttons[t].text and branch on it.
ForEdition ==
    /\ pc = "for_edition"
    /\ IF t < addons_titles
       THEN \E shown \in BOOLEAN :
              IF ~shown
              THEN /\ RaiseInCycle("TimeoutException", "edition-buttons")
                   /\ UNCHANGED << log, t, psVars >>
              ELSE IF ~Subscriptable(editions_addons_buttons)
              THEN /\ RaiseInCycle("TypeError", "editions_addons_buttons[t]")
                   /\ UNCHANGED << log, t, psVars >>
              ELSE \E label \in Labels :
                     /\ exc' = exc
                     /\ CASE label = "OWNED" ->
                               /\ log' = Append(log, EvT("skip"))
                               /\ t' = t + 1
                               /\ pc' = "for_edition"
                               /\ UNCHANGED psVars
                          [] label = "GET" ->
                               /\ log' = log \o << EvT("purchase_click"),
                                                    EvT("purchase_steps") >>
                               /\ ps' = NoPs
                               /\ caller' = "edition"
                               /\ pc' = "ps1"
                               /\ t' = t
                          [] OTHER ->
                               /\ t' = t + 1
                               /\ pc' = "for_edition"
                               /\ UNCHANGED << log, psVars >>
       ELSE /\ pc' = "nav_back"
            /\ UNCHANGED << log, t, psVars, exc >>
    /\ UNCHANGED << cfgVars, cycle, openBrowsers, n_games, i, games_found,
                    purchase_button, addons_titles >>

\* -------------------------------------------------------- purchase_steps
\* main.py:82-110, step 1: the license agreement.  Any of the three waits
\* can time out; the except clause of line 109 covers all three.
Step1Outcomes ==
    { << "ok", "accepted" >>,
      << "TimeoutException", "agree" >>,
      << "TimeoutException", "Accept" >>,
      << "TimeoutException", "purchase-cta-button" >> }

\* PurchaseStep1 with the try block closed after the first wait: a timeout
\* of the Accept wait or of the call-to-action wait is raised.
PurchaseStep1FirstWaitOnly ==
    /\ pc = "ps1"
    /\ \E o \in Step1Outcomes :
          IF o[1] = "ok" \/ (o[2] = "agree" /\ Catches(AgreementExcept, o[1]))
          THEN /\ ps' = [ps EXCEPT !.s1 = o[2]]
               /\ pc' = "ps2"
               /\ exc' = exc
          ELSE /\ ps' = [ps EXCEPT !.s1 = o[2], !.result = "raised"]
               /\ RaiseInCycle(o[1], "step1")
    /\ UNCHANGED << cfgVars, cycle, openBrowsers, offerVars, caller, log >>

PurchaseStep1 ==
    /\ pc = "ps1"
    /\ \E o \in Step1Outcomes :
          IF o[1] = "ok" \/ Catches(AgreementExcept, o[1])
          THEN /\ ps' = [ps EXCEPT !.s1 = o[2]]
               /\ pc' = "ps2"
               /\ exc' = exc
          ELSE /\ ps' = [ps EXCEPT !.s1 = o[2], !.result = "raised"]
               /\ RaiseInCycle(o[1], "step1")
    /\ UNCHANGED << cfgVars, cycle, openBrowsers, offerVars, caller, log >>

\* main.py:112-119, step 2: the primary purchase button, in no try block.
PurchaseStep2 ==
    /\ pc = "ps2"
    /\ \E shown \in BOOLEAN :
          IF shown
          THEN /\ ps' = [ps EXCEPT !.s2 = "clicked"]
               /\ pc' = "ps3"
               /\ exc' = exc
          ELSE /\ ps' = [ps EXCEPT !.s2 = "timeout", !.result = "raised"]
               /\ RaiseInCycle("TimeoutException", "step2")
    /\ UNCHANGED << cfgVars, cycle, openBrowsers, offerVars, caller, log >>

\* What step 3 raises when k buttons of class btn-primary are visible: the
\* wait times out for none, [1] raises IndexError for one.
Step3Raises(k) ==
    IF k = 0 THEN "TimeoutException" ELSE IF k = 1 THEN "IndexError" ELSE "ok"

\* main.py:121-133, step 3: the refund notice; the second button is clicked.
PurchaseStep3 ==
    /\ pc = "ps3"
    /\ \E k \in 0..2 :
          IF Step3Raises(k) = "ok"
          THEN /\ ps' = [ps EXCEPT !.s3 = "clicked"]
               /\ pc' = "ps4"
               /\ exc' = exc
          ELSE IF Catches(RefundExcept, Step3Raises(k))
          THEN /\ ps' = [ps EXCEPT !.s3 = "absent"]
               /\ pc' = "ps4"
               /\ exc' = exc
          ELSE /\ ps' = [ps EXCEPT !.s3 = "absent", !.result = "raised"]
               /\ RaiseInCycle(Step3Raises(k), "step3")
    /\ UNCHANGED << cfgVars, cycle, openBrowsers, offerVars, caller, log >>

\* main.py:135-144, step 4: the confirmation, in no try block.  On success
\* purchase_steps returns to its caller: main.py:342-345 for an offer,
\* main.py:383-386 (log, history back, next sub-item) for an edition.
PurchaseStep4 ==
    /\ pc = "ps4"
    /\ \E shown \in BOOLEAN :
          IF shown
          THEN /\ ps' = [ps EXCEPT !.s4 = "confirmed", !.result = "returned"]
               /\ exc' = exc
               /\ IF caller = "offer"
                  THEN /\ log' = Append(log, EvI("obtained"))
                       /\ pc' = "nav_back"
                       /\ t' = t
                  ELSE /\ log' = log \o << EvT("obtained"), EvT("history_back") >>
                       /\ pc' = "for_edition"
                       /\ t' = t + 1
          ELSE /\ ps' = [ps EXCEPT !.s4 = "timeout", !.result = "raised"]
               /\ RaiseInCycle("TimeoutException", "step4")
               /\ UNCHANGED << log, t >>
    /\ UNCHANGED << cfgVars, cycle, openBrowsers, n_games, i, games_found,
                    purchase_button, addons_titles, caller >>

\* NavBack with browser.get(FREE_GAMES_PAGE_URL) left out.
NavBackNoGet ==
    /\ pc = "nav_back"
    /\ i' = i + 1
    /\ ps' = NoPs
    /\ caller' = "-"
    /\ pc' = "for_offer"
    /\ UNCHANGED << cfgVars, cycle, openBrowsers, n_games, games_found,
                    purchase_button, addons_titles, t, exc, log >>

\* main.py:393-394: back to the promotions page, then the next index.  The
\* record of the purchase_steps call of this offer, if any, ends here.
NavBack ==
    /\ pc = "nav_back"
    /\ log' = Append(log, EvI("nav_back"))
    /\ i' = i + 1
    /\ ps' = NoPs
    /\ caller' = "-"
    /\ pc' = "for_offer"
    /\ UNCHANGED << cfgVars, cycle, openBrowsers, n_games, games_found,
                    purchase_button, addons_titles, t, exc >>

\* main.py:396-397: the cycle-level handler logs the traceback.
Handler ==
    /\ pc = "handler"
    /\ log' = Append(log, Ev("critical_traceback"))
    /\ pc' = "close"
    /\ UNCHANGED << cfgVars, cycle, openBrowsers, offerVars, psVars, exc >>

\* main.py:398: browser.close(), and execute() returns to main().
Close ==
    /\ pc = "close"
    /\ log' = Append(log, Ev("close_browser"))
    /\ openBrowsers' = openBrowsers - 1
    /\ pc' = "main_loop"
    /\ UNCHANGED << cfgVars, cycle, offerVars, psVars, exc >>

Next ==
    \/ Main
    \/ MainLoop
    \/ OpenBrowser
    \/ LoadCookies
    \/ LoggedIn
    \/ LoginForm
    \/ Captcha
    \/ Totp
    \/ Invalid
    \/ GetGames
    \/ Banner
    \/ ForOffer
    \/ Mature
    \/ ReadOffer
    \/ Owned
    \/ Get
    \/ SeeEditions
    \/ Unrecognized
    \/ ForEdition
    \/ PurchaseStep1
    \/ PurchaseStep2
    \/ PurchaseStep3
    \/ PurchaseStep4
    \/ NavBack
    \/ Handler
    \/ Close

Spec == Init /\ [][Next]_vars

\* The program is one thread and its waits are bounded
\* (WebDriverWait(browser, TIMEOUT), time.sleep(SLEEPTIME)): whenever it has a
\* next step it takes it.  The one wait without a bound, open() on a FIFO
\* that nobody writes to, is the state pc = "blocked", which has no next step.
FairSpec == Spec /\ WF_vars(Next)

\* ------------------------------------------------------------ properties
\* Number of events `name` of top-level offer j in this cycle's log.
Count(name, j) ==
    Cardinality({ k \in DOMAIN log : log[k] = << name, j, -1 >> })

Has(name) == \E k \in DOMAIN log : log[k][1] = name

\* The names of the events in the log: Has(name) iff name \in Names.
Names == { log[k][1] : k \in DOMAIN log }

\* The events of top-level offer j, in order.
OfferLog(j) == SelectSeq(log, LAMBDA e : e[2] = j /\ e[3] = -1)

\* Number of events `name` in the sequence of events L.
Num(L, name) == Len(SelectSeq(L, LAMBDA e : e[1] = name))

\* Position in L of its first event among `names` (0: none).
PosIn(L, names) ==
    LET at == { k \in DOMAIN L : L[k][1] \in names }
    IN  IF at = {} THEN 0 ELSE CHOOSE k \in at : \A m \in at : k <= m

OfferIndexes == 0..(MaxOffers - 1)
KnownLabels == {"OWNED", "GET", "SEE EDITIONS"}
PurchasePcs == {"ps1", "ps2", "ps3", "ps4"}

\* skip, purchase or warn events of offer j
Actions(j) == Count("skip", j) + Count("purchase_steps", j) + Count("warn", j)

\* C1 (as stated): when a cycle that found n_games offers is over, each of
\* the n_games offers was clicked exactly once and got exactly one of skip,
\* purchase, warn.
C1_EveryOfferVisitedOnce ==
    (pc = "main_loop" /\ n_games > 0) =>
        \A j \in 0..(n_games - 1) : Count("click_offer", j) = 1 /\ Actions(j) = 1

\* C1 (amended): no offer is clicked more than once or gets more than one of
\* skip, purchase, warn, and none gets an action without being clicked; in a
\* cycle that reaches 'all games processed' each of the n_games offers was
\* clicked exactly once and took exactly one branch: one of skip, purchase,
\* warn, or the editions sub-loop.
C1_VisitedOnceWhenCompleted ==
    LET completed == Has("all_games_processed")
    IN  \A j \in OfferIndexes :
           LET L == OfferLog(j)
               clicks == Num(L, "click_offer")
               branches == Num(L, "skip") + Num(L, "purchase_steps") + Num(L, "warn")
                              + Num(L, "editions")
           IN  /\ clicks <= 1
               /\ branches <= clicks
               /\ completed =>
                     IF j < n_games THEN clicks = 1 /\ branches = 1 ELSE clicks = 0

C1_Witness ==
    /\ Has("all_games_processed")
    /\ n_games = 2
    /\ Count("skip", 0) = 1
    /\ Count("purchase_steps", 1) = 1

\* C2: a timeout or an element-not-found raised anywhere in a cycle never
\* terminates the process.
C2_FailureNeverTerminates ==
    exc[1] \in {"TimeoutException", "NoSuchElementException"} => pc # "crashed"

\* C3: an offer labelled SEE EDITIONS with M sub-items has all M sub-items
\* processed when its sub-item loop is left without a timeout.
C3_AllSubItemsProcessed ==
    ( /\ purchase_button = "SEE EDITIONS"
      /\ addons_titles > 0
      /\ pc \in {"nav_back", "crashed"} ) => t = addons_titles

\* C4: purchase_steps fails only by a timeout of step 2 or of step 4: a
\* timeout of step 1 leads on to step 2, an absent refund notice leads on to
\* step 4, and with steps 2 and 4 shown it returns, whatever steps 1 and 3 saw.
C4_OptionalStepsTolerated ==
    /\ ps.result = "raised" => (ps.s2 = "timeout" \/ ps.s4 = "timeout")
    /\ (ps.s1 # "-" /\ ps.s2 = "-") => pc = "ps2"
    /\ (ps.s3 # "-" /\ ps.s4 = "-") => pc = "ps4"
    /\ (ps.s2 = "clicked" /\ ps.s4 = "confirmed") => ps.result = "returned"

C4_Witness ==
    /\ ps.result = "returned"
    /\ ps.s1 = "agree"
    /\ ps.s3 = "absent"

\* C5: the expiry of the wait for the cookie banner's close button does not
\* end the cycle.
C5_BannerAbsenceHandledLocally ==
    exc[2] = "banner" => pc \notin {"handler", "close", "main_loop", "crashed"}

\* C6: after the login form could not be located, no offer is enumerated
\* and no purchase button is clicked.
C6_NoLoginFormTerminates ==
    Has("critical_no_login_form") => (~Has("enumerate") /\ ~Has("purchase_click"))

\* C7: the session of a cycle is closed when execute() has finished, and at
\* most one session is open at any time.
C7_SessionClosedAfterCycle ==
    /\ pc = "main_loop" => openBrowsers = 0
    /\ openBrowsers <= 1

\* The events of the log after the last call of purchase_steps.
AfterLastPurchase ==
    LET calls == { k \in DOMAIN log : log[k][1] = "purchase_steps" }
        last == CHOOSE k \in calls : \A m \in calls : m <= k
    IN  IF calls = {} THEN << >> ELSE SubSeq(log, last + 1, Len(log))

\* C8: a timeout of step 2 or step 4 of purchase_steps reaches the handler
\* of execute(), which logs it; nothing but that log entry and the closing
\* of the browser follows in the cycle: no offer is clicked, no purchase
\* button is clicked.
C8_PurchaseTimeoutAbortsCycle ==
    (ps.result = "raised" /\ exc[2] \in {"step2", "step4"}) =>
        /\ pc \in {"handler", "close", "main_loop", "execute", "returned"}
        /\ pc # "handler" => Has("critical_traceback")
        /\ \A k \in DOMAIN AfterLastPurchase :
              AfterLastPurchase[k][1] \in {"critical_traceback", "close_browser"}

C8_Witness ==
    /\ ps.result = "raised"
    /\ exc = << "TimeoutException", "step4" >>
    /\ pc = "main_loop"
    /\ n_games = 2
    /\ i = 0

\* C9: an offer with an unrecognized label gets one warning and nothing
\* else (no click on the purchase button, no purchase_steps) and the loop
\* goes on to navigate back and to the next index.
C9_UnrecognizedNeverActedUpon ==
    /\ (purchase_button \notin KnownLabels \cup {"-"}) =>
          pc \notin PurchasePcs \cup {"for_edition"}
    /\ (purchase_button \notin KnownLabels /\ pc = "nav_back") =>
          (Count("warn", i) = 1 /\ exc = NoExc)
    /\ \A j \in OfferIndexes :
          LET L == OfferLog(j)
          IN  Num(L, "warn") > 0 =>
                 /\ Num(L, "warn") = 1
                 /\ Num(L, "purchase_click") = 0
                 /\ Num(L, "purchase_steps") = 0
                 /\ Num(L, "nav_back") = 1 \/ (pc = "nav_back" /\ i = j)

C9_Witness ==
    /\ Count("warn", 0) = 1
    /\ Count("nav_back", 0) = 1
    /\ Count("click_offer", 1) = 1

\* C10: an offer labelled OWNED is skipped: between its selection and the
\* navigation back there is no click on the purchase button and no call of
\* purchase_steps.
C10_OwnedNeverPurchased ==
    /\ purchase_button = "OWNED" => pc \notin PurchasePcs \cup {"for_edition"}
    /\ (purchase_button = "OWNED" /\ pc = "nav_back") =>
          (Count("skip", i) = 1 /\ log[Len(log)] = EvI("skip"))
    /\ \A j \in OfferIndexes :
          LET L == OfferLog(j)
          IN  Num(L, "skip") > 0 =>
                 (Num(L, "purchase_click") = 0 /\ Num(L, "purchase_steps") = 0)

C10_Witness ==
    /\ purchase_button = "OWNED"
    /\ pc = "nav_back"
    /\ Count("click_offer", i) = 1

\* Position in the log of the first event `name` of top-level offer j (0: none).
Pos(name, j) ==
    LET at == { k \in DOMAIN log : log[k] = << name, j, -1 >> }
    IN  IF at = {} THEN 0 ELSE CHOOSE k \in at : \A m \in at : k <= m

\* Number of events `name` in the log, of any offer.
Total(name) == Cardinality({ k \in DOMAIN log : log[k][1] = name /\ log[k][3] = -1 })

\* C11: a top-level offer labelled GET gets exactly one click on the purchase
\* button and then exactly one call of purchase_steps, no other offer gets a
\* call, and in a cycle that reaches 'all games processed' the calls are as
\* many as the offers labelled GET.
C11_GetPurchasedOnce ==
    /\ \A j \in OfferIndexes :
          LET L == OfferLog(j)
              gets == Num(L, "GET")
          IN  /\ Num(L, "purchase_steps") <= gets
              /\ gets <= 1
              /\ (gets = 1 /\ (Num(L, "nav_back") = 1 \/ (pc = "nav_back" /\ i = j)
                                  \/ (pc \in PurchasePcs /\ i = j))) =>
                    /\ Num(L, "purchase_click") = 1
                    /\ Num(L, "purchase_steps") = 1
                    /\ PosIn(L, {"GET"}) < PosIn(L, {"purchase_click"})
                    /\ PosIn(L, {"purchase_click"}) < PosIn(L, {"purchase_steps"})
    /\ Has("all_games_processed") => Total("purchase_steps") = Total("GET")

C11_Witness ==
    /\ Has("all_games_processed")
    /\ Count("GET", 0) = 1
    /\ Count("GET", 1) = 1
    /\ Total("purchase_steps") = 2

\* C12: without TOTP the login sequence never looks for the 2FA field; with
\* TOTP a login sequence that gets to the invalid-credentials check has
\* looked for it before, and it looks for it only after sign-in was clicked.
C12_TwoFactorAfterSignIn ==
    /\ TOTP = "" => ~Has("locate_2fa")
    /\ (TOTP # "" /\ Has("check_invalid")) =>
          (0 < Pos("locate_2fa", -1) /\ Pos("locate_2fa", -1) < Pos("check_invalid", -1))
    /\ Has("locate_2fa") =>
          (0 < Pos("click_sign_in", -1)
             /\ Pos("click_sign_in", -1) < Pos("locate_2fa", -1))

\* C13: when cookies.json is absent or its content is malformed (bytes that
\* are not UTF-8, text that is not JSON, JSON too deep to parse, a value that
\* is no list), load_cookies raises nothing to execute(), adds no cookie and
\* does not refresh the page, and the cycle goes on with the logged-in check
\* and, if needed, login().  A cookies.json that exists and cannot be opened
\* or read at all (no permission, a directory, an I/O error, no memory) is
\* neither of the two cases.
C13_BadCookieFileTolerated ==
    /\ exc[2] = "cookies.json" =>
          exc[1] \in {"PermissionError", "IsADirectoryError", "OSError", "MemoryError"}
    /\ (Has("critical_cookies_not_found") \/ Has("critical_cookies_malformed")) =>
          /\ ~Has("add_cookie")
          /\ ~Has("refresh")
          /\ log[2][1] \in {"critical_cookies_not_found", "critical_cookies_malformed"}
          /\ IF Len(log) = 2 THEN pc = "logged_in"
                              ELSE log[3][1] \in {"logged_in", "login"}

\* C14: once login() has found the captcha iframe or the invalid-credentials
\* message, the browser has been closed and the process has terminated: in
\* that cycle no offer is enumerated and no purchase button clicked, and no
\* other cycle is started, whatever SLEEPTIME is.
C14_FatalLoginTerminates ==
    LET names == Names
    IN  ("critical_captcha" \in names \/ "critical_invalid" \in names) =>
            /\ pc = "exited"
            /\ log[Len(log)] = Ev("close_browser")
            /\ "enumerate" \notin names
            /\ "click_offer" \notin names
            /\ "purchase_click" \notin names

C14_Witness ==
    /\ Has("critical_invalid")
    /\ pc = "exited"
    /\ NonNegative(SLEEPTIME)

Terminated == pc \in {"returned", "exited", "crashed"}

\* C15: with credentials and SLEEPTIME < 0 exactly one cycle is started and
\* the process ends; with SLEEPTIME >= 0 every return of execute() to main()
\* is followed by the start of another cycle (within the cycles explored);
\* a cycle starts only at the call of execute() in main(), after the cycle
\* before it returned.
C15_RunLoop ==
    /\ [](Negative(SLEEPTIME) => cycle <= 1)
    /\ []((credentials /\ Negative(SLEEPTIME) /\ Terminated) => cycle = 1)
    /\ (credentials /\ Negative(SLEEPTIME)) ~> Terminated
    /\ (pc = "main_loop" /\ NonNegative(SLEEPTIME) /\ cycle < MaxCycles)
          ~> (pc = "load_cookies")
    /\ []((pc = "execute" /\ cycle > 0) =>
            log[Len(log)][1] \in {"close_browser", "critical_no_free_games"})
    /\ [][cycle' # cycle => (pc = "execute" /\ cycle' = cycle + 1)]_vars

\* The events that end the branch of an offer: its skip, its warning or the
\* return of its purchase_steps.
BranchEnds == {"skip", "warn", "obtained"}

\* The clicks on offers and the navigations back of this cycle, in order.
ClicksAndBacks ==
    SelectSeq(log, LAMBDA e : e[1] \in {"click_offer", "nav_back"} /\ e[3] = -1)

\* C16: the clicks on offers and the navigations back to the promotions page
\* alternate, index by index: offer 0, back, offer 1, back, ...; the
\* navigation back of an offer comes after its branch ended, every offer
\* before the current index has one, and an offer whose branch ended without
\* failure is navigated back from next.
C16_NavigateBackBetweenOffers ==
    /\ LET CB == ClicksAndBacks
       IN  \A k \in DOMAIN CB :
              CB[k] = IF k % 2 = 1
                      THEN << "click_offer", (k - 1) \div 2, -1 >>
                      ELSE << "nav_back", (k - 2) \div 2, -1 >>
    /\ \A j \in OfferIndexes :
          LET L == OfferLog(j)
              back == PosIn(L, {"nav_back"})
              done == PosIn(L, BranchEnds)
          IN  /\ j < i => (back > 0 /\ (done > 0 => done < back))
              /\ (done > 0 /\ back = 0) => (pc = "nav_back" /\ i = j)

C16_Witness ==
    /\ Count("obtained", 0) = 1
    /\ Count("nav_back", 0) = 1
    /\ Count("click_offer", 1) = 1

LoginPcs == {"login_form", "captcha", "totp", "invalid"}
LoginEvents ==
    {"login", "click_sign_in", "critical_no_login_form", "no_captcha",
     "critical_captcha", "locate_2fa", "submit_2fa", "check_invalid",
     "critical_invalid", "login_succeeded"}

\* C17: after the cookies were loaded the cycle either finds the log-out
\* control, runs nothing of login() and queries the offers next, or does not
\* find it and calls login() next; offers are queried only after the one or
\* after login() has run to its end.
C17_LoginIffNotLoggedIn ==
    LET names == Names
        hasLoggedIn == "logged_in" \in names
        hasLogin == "login" \in names
        hasEnumerate == "enumerate" \in names
        atLoggedIn == Pos("logged_in", -1)
        atLogin == Pos("login", -1)
    IN  /\ hasLoggedIn =>
              /\ names \cap LoginEvents = {}
              /\ pc \notin LoginPcs
              /\ Len(log) > atLoggedIn => log[atLoggedIn + 1] = Ev("enumerate")
        /\ pc \in LoginPcs => (hasLogin /\ ~hasEnumerate)
        /\ (hasEnumerate /\ ~hasLoggedIn) =>
              /\ hasLogin
              /\ atLogin < Pos("login_succeeded", -1)
              /\ Pos("login_succeeded", -1) < Pos("enumerate", -1)
        /\ hasLogin =>
              log[atLogin - 1][1] \in
                  {"open_browser", "add_cookie", "refresh",
                   "critical_cookies_not_found", "critical_cookies_malformed"}

C17_Witness ==
    /\ Has("login")
    /\ Has("login_succeeded")
    /\ Has("click_offer")

\* C18: an access games_found[i] out of the range of the list queried at
\* iteration i never leaves execute() past its cycle-level handler.
C18_NoOutOfRangeEscapes ==
    ~(exc = << "IndexError", "offers" >> /\ pc = "crashed")

\* C19: when the license agreement was clicked and the wait for the Accept
\* button, or the wait for the call-to-action button after it, timed out,
\* purchase_steps has raised nothing in step 1 and goes on to step 2.
C19_AgreementTimeoutsSwallowed ==
    ps.s1 \in {"Accept", "purchase-cta-button"} =>
        /\ exc[2] # "step1"
        /\ ps.s2 = "-" => (pc = "ps2" /\ ps.result = "-")
        /\ ps.s2 # "-" => pc # "ps1"

C19_Witness ==
    /\ ps.s1 = "Accept"
    /\ ps.s2 = "clicked"
    /\ ps.result = "returned"
====
